---- MODULE Spec2Model ----
(***************************************************************************)
(* Thomson problem optimiser (src/ThomsonProblem/script.js): the genetic    *)
(* algorithm with projected gradient descent of class ThomsonSimulation,   *)
(* and the page controller (resetSimulation, animate, the input handlers). *)
(*                                                                         *)
(* Numbers.  JavaScript doubles are modelled in fixed point: the real 1.0  *)
(* is ONE units, a point is a triple of integers of length about ONE, an   *)
(* energy is an integer number of 1/ONE.  Every product is divided back by *)
(* ONE with rounding to nearest (RDiv), as a double operation rounds.      *)
(*                                                                         *)
(* Objects.  THREE.Vector3 objects live in `heap`, a sequence of vectors;  *)
(* an address is an index of it.  A configuration is a sequence of         *)
(* addresses, so that two configurations sharing a point object, and an    *)
(* in-place update seen through both, can be expressed.                    *)
(***************************************************************************)
EXTENDS Integers, Sequences, FiniteSets, TLC

\* ---------------------------------------------------------------- bounds
\* Fixed-point unit: the real number 1.0.
ONE == 32
\* Largest electron count N offered by the n-input.
MaxN == 2
\* Largest population size P offered by the pop-input.
MaxP == 4
\* Largest number N * P of points one population holds.
MaxPoints == 4
\* Largest number of frames animate runs step() in on one simulation.
MaxFrames == 2
\* Largest number of changes made to the mut-, lr- and conv-inputs.
MaxEdits == 1
\* Iteration cap of gradientDescent (10000 at script.js:128), scaled down.
maxIter == 6

\* ------------------------------------------------------ program constants
\* script.js:72 and :142, the collision distance 1e-9, in units of 1/ONE.
COLLISION_EPS == 3
\* script.js:75, the collision penalty 1e9, in units of 1/ONE.  In doubles
\* 1/1e-9 evaluates to 999999999.9999999, one unit in the last place below
\* the literal 1e9; the scaled pair (3, 342) keeps that relation, since
\* Recip(3) = 341 when ONE = 32.
COLLISION_PENALTY == 342
\* script.js:31 and :130, the double Infinity: above every finite value.
Infinity == 2000000000
\* script.js:168, tournament size.
k == 3

\* ------------------------------------------------------------ arithmetic
Abs(x) == IF x < 0 THEN -x ELSE x

\* a / b for b > 0, rounded to nearest, ties away from zero.
RDiv(a, b) == IF a >= 0 THEN (2 * a + b) \div (2 * b)
                        ELSE -((2 * (-a) + b) \div (2 * b))

ISqrtStep(s, n) == IF (s + 1) * (s + 1) <= n THEN s + 1 ELSE s

RECURSIVE ISqrtFloor(_)
ISqrtFloor(n) == IF n < 2 THEN n ELSE ISqrtStep(2 * ISqrtFloor(n \div 4), n)

ISqrtRound(s, n) == IF n - s * s > s THEN s + 1 ELSE s

\* Math.sqrt, rounded to nearest.
Sqrt(n) == ISqrtRound(ISqrtFloor(n), n)

\* ------------------------------------------------------- THREE.Vector3
subVectors(a, b) == <<a[1] - b[1], a[2] - b[2], a[3] - b[3]>>

addVectors(a, b) == <<a[1] + b[1], a[2] + b[2], a[3] + b[3]>>

\* v.multiplyScalar(s) for a fixed-point scalar s.
multiplyScalar(v, s) == <<RDiv(v[1] * s, ONE), RDiv(v[2] * s, ONE), RDiv(v[3] * s, ONE)>>

\* v.multiplyScalar(num/den) for a rational literal.
multiplyRatio(v, num, den) == <<RDiv(v[1] * num, den), RDiv(v[2] * num, den), RDiv(v[3] * num, den)>>

\* The sum of products, in units of 1/ONE^2: its sign is the sign of a.dot(b).
dotRaw(a, b) == a[1] * b[1] + a[2] * b[2] + a[3] * b[3]

\* a.dot(b) as a fixed-point number.
dot(a, b) == RDiv(dotRaw(a, b), ONE)

\* v.lengthSq() in units of 1/ONE^2.
lengthSq(v) == dotRaw(v, v)

\* a.distanceTo(b) in units of 1/ONE.
distanceTo(a, b) == Sqrt(lengthSq(subVectors(a, b)))

\* Mutant of normalize: the vector is left as it is.
normalizeSkipped(v) == v

\* v.normalize(): divideScalar(length() || 1).
normalize(v) ==
    IF Sqrt(lengthSq(v)) = 0 THEN v
    ELSE <<RDiv(v[1] * ONE, Sqrt(lengthSq(v))),
           RDiv(v[2] * ONE, Sqrt(lengthSq(v))),
           RDiv(v[3] * ONE, Sqrt(lengthSq(v)))>>

\* 1 / dist for dist > 0, in units of 1/ONE.
Recip(dist) == RDiv(ONE * ONE, dist)

\* ------------------------------------------------------------------ heap
\* new THREE.Vector3(v): the heap with one more object, whose address is
\* Len of the new heap.
alloc(h, v) == Append(h, v)

\* The vectors of a configuration.
Values(h, points) == [j \in 1..Len(points) |-> h[points[j]]]

\* ---------------------------------------------- ThomsonSimulation.calculateEnergy
\* Mutant of pairEnergy: the penalty only below the collision distance.
pairEnergyBelow(dist) == IF dist >= COLLISION_EPS THEN Recip(dist) ELSE COLLISION_PENALTY

\* script.js:71-76, the contribution of one pair.
pairEnergy(dist) == IF dist > COLLISION_EPS THEN Recip(dist) ELSE COLLISION_PENALTY

RECURSIVE sumRow(_, _, _, _)
\* script.js:70-77, the inner loop from j on for a fixed i.
sumRow(h, points, i, j) ==
    IF j > Len(points) THEN 0
    ELSE pairEnergy(distanceTo(h[points[i]], h[points[j]])) + sumRow(h, points, i, j + 1)

RECURSIVE sumRows(_, _, _)
\* script.js:69-78, the outer loop from i on.
sumRows(h, points, i) ==
    IF i > Len(points) THEN 0
    ELSE sumRow(h, points, i, i + 1) + sumRows(h, points, i + 1)

\* script.js:67-80.
calculateEnergy(h, points) == sumRows(h, points, 1)

\* ---------------------------------------------- ThomsonSimulation.gradientDescent
\* script.js:138-144, the force of the pair (a, b) on a; zero when the
\* pair is skipped.
pairForce(a, b) ==
    IF Sqrt(lengthSq(subVectors(a, b))) > COLLISION_EPS
    THEN multiplyScalar(subVectors(a, b),
                        RDiv(ONE * ONE * ONE * ONE,
                             lengthSq(subVectors(a, b)) * Sqrt(lengthSq(subVectors(a, b)))))
    ELSE <<0, 0, 0>>

RECURSIVE forceOn(_, _, _, _)
\* script.js:136-149, forces[i] once both loops are done: the pair (i, j)
\* adds its force for i < j (line 145), the pair (j, i) subtracts its own
\* for j < i (line 146).
forceOn(h, points, i, j) ==
    IF j > Len(points) THEN <<0, 0, 0>>
    ELSE addVectors(
           IF i < j THEN pairForce(h[points[i]], h[points[j]])
           ELSE IF j < i THEN subVectors(<<0, 0, 0>>, pairForce(h[points[j]], h[points[i]]))
           ELSE <<0, 0, 0>>,
           forceOn(h, points, i, j + 1))

\* script.js:134-149.
forces(h, points) == [i \in 1..Len(points) |-> forceOn(h, points, i, 1)]

\* script.js:152-154, the force projected on the tangent plane at normal.
project(force, normal) == subVectors(force, multiplyScalar(normal, dot(force, normal)))

\* script.js:156-157, addScaledVector with lr = num/den, then normalize.
advance(p, force, lr) ==
    normalize(addVectors(p, <<RDiv(force[1] * lr.num, lr.den),
                               RDiv(force[2] * lr.num, lr.den),
                               RDiv(force[3] * lr.num, lr.den)>>))

RECURSIVE movePoints(_, _, _, _, _)
\* script.js:151-158, the loop from i on: each object is updated in place,
\* in index order.
movePoints(h, points, f, lr, i) ==
    IF i > Len(points) THEN h
    ELSE movePoints(
           [h EXCEPT ![points[i]] = advance(h[points[i]], project(f[i], h[points[i]]), lr)],
           points, f, lr, i + 1)

\* script.js:134-158, one iteration of the while loop: the heap after it.
gdIterate(h, points, lr) == movePoints(h, points, forces(h, points), lr, 1)

\* Mutant of gdContinue: the loop also goes on at a change equal to the
\* threshold.
gdContinueAtThreshold(deltaE, iter, thr) == deltaE >= thr /\ iter < maxIter

\* script.js:133, the loop condition.
gdContinue(deltaE, iter, thr) == deltaE > thr /\ iter < maxIter

RECURSIVE gdLoop(_, _, _, _, _, _, _)
\* script.js:133-164, the while loop from (iter, deltaEnergy, currentEnergy).
gdLoop(h, points, lr, thr, iter, deltaE, curE) ==
    IF gdContinue(deltaE, iter, thr)
    THEN LET moved == gdIterate(h, points, lr)
             newEnergy == calculateEnergy(moved, points)
         IN gdLoop(moved, points, lr, thr, iter + 1, Abs(curE - newEnergy), newEnergy)
    ELSE h

\* script.js:127-165: the heap after gradientDescent(points, lr).
gradientDescent(h, points, lr, thr) ==
    gdLoop(h, points, lr, thr, 0, Infinity, calculateEnergy(h, points))

\* ------------------------------------------------- Vector3.clone and friends
\* p.clone(): the heap with the copy, and the copy's address.
clone(h, a) == [heap |-> alloc(h, h[a]), addr |-> Len(h) + 1]

RECURSIVE cloneAll(_, _, _, _)
\* points.map(p => p.clone()) from index j on, acc being the copies so far.
cloneAll(h, points, j, acc) ==
    IF j > Len(points) THEN [heap |-> h, points |-> acc]
    ELSE cloneAll(clone(h, points[j]).heap, points, j + 1,
                  Append(acc, clone(h, points[j]).addr))

RECURSIVE allocAll(_, _, _, _)
\* script.js:48-54 createRandomConfig, and the padding loop of crossover
\* (script.js:191-193): one new object per vector of vs, from index j on.
allocAll(h, vs, j, acc) ==
    IF j > Len(vs) THEN [heap |-> h, points |-> acc]
    ELSE allocAll(alloc(h, vs[j]), vs, j + 1, Append(acc, Len(h) + 1))

\* ---------------------------------------------- ThomsonSimulation.updateBest
RECURSIVE insertSorted(_, _)
\* ind placed after every element of the sorted sequence whose energy is
\* not above its own: the stable order of Array.prototype.sort.
insertSorted(sorted, ind) ==
    IF sorted = <<>> THEN <<ind>>
    ELSE IF sorted[Len(sorted)].energy <= ind.energy THEN Append(sorted, ind)
    ELSE Append(insertSorted(SubSeq(sorted, 1, Len(sorted) - 1), ind), sorted[Len(sorted)])

\* Mutant of sortByEnergy: the population is left in the order it has.
sortByEnergySkipped(pop) == pop

RECURSIVE sortByEnergy(_)
\* script.js:83, population.sort((a, b) => a.energy - b.energy).
sortByEnergy(pop) ==
    IF pop = <<>> THEN <<>>
    ELSE insertSorted(sortByEnergy(SubSeq(pop, 1, Len(pop) - 1)), pop[Len(pop)])

\* Mutant of improves: the best record is replaced without the test.
improvesAlways(energy, best) == TRUE

\* script.js:84, the test that replaces the best record.
improves(energy, best) == energy < best

\* Mutant of copyBest: the points of the individual are kept, not copies.
copyBestShared(h, points) == [heap |-> h, points |-> points]

\* script.js:86, the copy kept as bestConfig.
copyBest(h, points) == cloneAll(h, points, 1, <<>>)

\* script.js:82-88: the sorted population, and the best record after it.
updateBest(h, pop, bConfig, bEnergy) ==
    IF improves(sortByEnergy(pop)[1].energy, bEnergy)
    THEN [population |-> sortByEnergy(pop),
          heap |-> copyBest(h, sortByEnergy(pop)[1].points).heap,
          bestConfig |-> copyBest(h, sortByEnergy(pop)[1].points).points,
          bestEnergy |-> sortByEnergy(pop)[1].energy,
          replaced |-> TRUE]
    ELSE [population |-> sortByEnergy(pop), heap |-> h, bestConfig |-> bConfig,
          bestEnergy |-> bEnergy, replaced |-> FALSE]

\* ---------------------------------------- ThomsonSimulation.tournamentSelect
RECURSIVE tournamentLoopLastTie(_, _, _, _)
\* Mutant of tournamentLoop: on equal energies the later draw is kept.
tournamentLoopLastTie(pop, draws, j, best) ==
    IF j > k THEN best
    ELSE tournamentLoopLastTie(pop, draws, j + 1,
           IF best = 0 \/ pop[draws[j]].energy <= pop[best].energy THEN draws[j] ELSE best)

RECURSIVE tournamentLoop(_, _, _, _)
\* script.js:170-175 from draw j on; best is a slot of the population, 0 for
\* null; draws[j] is Math.floor(Math.random() * population.length) + 1.
tournamentLoop(pop, draws, j, best) ==
    IF j > k THEN best
    ELSE tournamentLoop(pop, draws, j + 1,
           IF best = 0 \/ pop[draws[j]].energy < pop[best].energy THEN draws[j] ELSE best)

\* script.js:167-177: the slot of the individual returned.
tournamentSelect(pop, draws) == tournamentLoop(pop, draws, 1, 0)

\* ------------------------------------------------ ThomsonSimulation.crossover
\* script.js:184, the side of the plane parent A gives its points from.
sideA(p, normal) == dotRaw(p, normal) >= 0

\* Mutant of sideB: parent B gives its points on the plane too.
sideBOrOn(p, normal) == dotRaw(p, normal) <= 0

\* script.js:188, the side parent B gives its points from.
sideB(p, normal) == dotRaw(p, normal) < 0

\* Mutant of inheritPoint: the parent's point is pushed as it is, without
\* clone().
inheritPointShared(h, a) == [heap |-> h, addr |-> a]

\* script.js:184 and :188, child.push(p.clone()).
inheritPoint(h, a) == clone(h, a)

RECURSIVE inheritA(_, _, _, _, _)
\* script.js:183-185 from index j on.
inheritA(h, parent, normal, j, acc) ==
    IF j > Len(parent) THEN [heap |-> h, points |-> acc]
    ELSE IF sideA(h[parent[j]], normal)
    THEN inheritA(inheritPoint(h, parent[j]).heap, parent, normal, j + 1,
                  Append(acc, inheritPoint(h, parent[j]).addr))
    ELSE inheritA(h, parent, normal, j + 1, acc)

RECURSIVE inheritB(_, _, _, _, _)
\* script.js:187-189 from index j on.
inheritB(h, parent, normal, j, acc) ==
    IF j > Len(parent) THEN [heap |-> h, points |-> acc]
    ELSE IF sideB(h[parent[j]], normal)
    THEN inheritB(inheritPoint(h, parent[j]).heap, parent, normal, j + 1,
                  Append(acc, inheritPoint(h, parent[j]).addr))
    ELSE inheritB(h, parent, normal, j + 1, acc)

\* script.js:183-189: the child before padding and trimming.
inherit(h, parentA, parentB, normal) ==
    inheritB(inheritA(h, parentA, normal, 1, <<>>).heap, parentB, normal, 1,
             inheritA(h, parentA, normal, 1, <<>>).points)

\* script.js:191, the number of random points the padding loop draws.
padCount(h, parentA, parentB, normal, n) ==
    IF Len(inherit(h, parentA, parentB, normal).points) < n
    THEN n - Len(inherit(h, parentA, parentB, normal).points) ELSE 0

RECURSIVE scanPairsLastTie(_, _, _, _, _, _)
\* Mutant of scanPairs: of two pairs equally close the later one is kept.
scanPairsLastTie(h, child, i, j, minDist, removeIdx) ==
    IF i > Len(child) THEN removeIdx
    ELSE IF j > Len(child) THEN scanPairsLastTie(h, child, i + 1, i + 2, minDist, removeIdx)
    ELSE IF distanceTo(h[child[i]], h[child[j]]) <= minDist
    THEN scanPairsLastTie(h, child, i, j + 1, distanceTo(h[child[i]], h[child[j]]), i)
    ELSE scanPairsLastTie(h, child, i, j + 1, minDist, removeIdx)

RECURSIVE scanPairs(_, _, _, _, _, _)
\* script.js:197-205 from the pair (i, j) on: removeIdx, 0 standing for -1.
scanPairs(h, child, i, j, minDist, removeIdx) ==
    IF i > Len(child) THEN removeIdx
    ELSE IF j > Len(child) THEN scanPairs(h, child, i + 1, i + 2, minDist, removeIdx)
    ELSE IF distanceTo(h[child[i]], h[child[j]]) < minDist
    THEN scanPairs(h, child, i, j + 1, distanceTo(h[child[i]], h[child[j]]), i)
    ELSE scanPairs(h, child, i, j + 1, minDist, removeIdx)

\* child.splice(idx, 1).
splice(child, idx) == SubSeq(child, 1, idx - 1) \o SubSeq(child, idx + 1, Len(child))

\* script.js:195-210, one round of the trimming loop.
trimOnce(h, child) ==
    IF scanPairs(h, child, 1, 2, Infinity, 0) # 0
    THEN splice(child, scanPairs(h, child, 1, 2, Infinity, 0))
    ELSE SubSeq(child, 1, Len(child) - 1)

RECURSIVE trim(_, _, _)
\* script.js:194-211.
trim(h, child, n) == IF Len(child) > n THEN trim(h, trimOnce(h, child), n) ELSE child

\* Mutant of crossover: the trimming loop is left out.
crossoverUntrimmed(h, parentA, parentB, normal, pads, n) ==
    allocAll(inherit(h, parentA, parentB, normal).heap, pads, 1,
             inherit(h, parentA, parentB, normal).points)

\* script.js:179-213: normal and pads are the values randomPointOnSphere
\* returns at line 180 and at line 192.
crossover(h, parentA, parentB, normal, pads, n) ==
    LET kept == inherit(h, parentA, parentB, normal)
        padded == allocAll(kept.heap, pads, 1, kept.points)
    IN [heap |-> padded.heap, points |-> trim(padded.heap, padded.points, n)]

\* --------------------------------------------------- ThomsonSimulation.mutate
\* Mutant of mutates: a draw equal to the rate mutates too.
mutatesAtRate(u, rate) == u <= rate

\* script.js:216, Math.random() < mutationRate, both in hundredths.
mutates(u, rate) == u < rate

\* script.js:218-219, the point displaced by 0.2 * perturbation, normalised.
displace(p, perturbation) == normalize(addVectors(p, multiplyRatio(perturbation, 2, 10)))

\* script.js:215-221: the heap after mutate(points), u being the draw of
\* line 216, idx the index of line 217, perturbation the point of line 218.
mutate(h, points, u, rate, idx, perturbation) ==
    IF mutates(u, rate)
    THEN [h EXCEPT ![points[idx]] = displace(h[points[idx]], perturbation)]
    ELSE h

\* ------------------------------------------------------------ input sets
\* Values randomPointOnSphere (script.js:56-65) may return.
SpherePoints == {<<ONE, 0, 0>>, <<0, ONE, 0>>}

\* Values of Math.random() at script.js:216, in hundredths.
RandomDraws == {10, 60}

\* Values the n-input and the pop-input may hold (script.js:248-249).
NValues == 1..MaxN

PopValues == 2..MaxP

\* Values the mut-input may hold, in hundredths (script.js:250).
MutationRates == {0, 20}

\* Values the lr-input may hold (script.js:251): 0.01 and 0.1.
LearningRates == {[num |-> 1, den |-> 100], [num |-> 1, den |-> 10]}

\* Values of 10^-k for the conv-input (script.js:252), in units of 1/ONE.
Thresholds == {1, 4}

\* ----------------------------------------------------------------- state
VARIABLES
    nElectrons, populationSize, mutationRate, learningRate,  \* script.js:8-15
    convergenceThreshold, isRunning,                         \* script.js:7, 15
    heap,                \* the Vector3 objects
    simN, simPopSize,    \* simulation.n, simulation.populationSize
    population,          \* simulation.population: [points, energy] records
    bestConfig, bestEnergy,
    pc,                  \* where the running handler stands; "idle" between handlers
    event,               \* the handler that runs, or ran last
    i,                   \* the loop counter of initPopulation or of step
    initialBestEnergy,   \* script.js:91
    p1, p2,              \* script.js:106-107, as slots of population (0: none)
    drawn,               \* the slots the two tournaments of this child drew
    childPoints,         \* script.js:109
    inherited,           \* the points the child had at script.js:190
    replaced,            \* <<b1, b2>>: whether updateBest at line 100, 122 replaced
    delta,               \* what step() returned last (script.js:547)
    frames,              \* the step() calls made on this simulation
    edits,               \* the changes made to the mut-, lr- and conv-inputs
    gd,                  \* the locals of one gradientDescent call (SpecGD)
    call                 \* one call of another method, its arguments and results (SpecCalls)

simVars == <<simN, simPopSize, population, bestConfig, bestEnergy>>
globalVars == <<nElectrons, populationSize, mutationRate, learningRate, convergenceThreshold>>
stepVars == <<initialBestEnergy, p1, p2, drawn, childPoints, inherited, replaced, delta>>
vars == <<globalVars, isRunning, heap, simVars, pc, event, i, stepVars, frames, edits, gd, call>>

\* ------------------------------------------------------ garbage collection
RECURSIVE flattenPop(_, _)
flattenPop(pop, j) == IF j > Len(pop) THEN <<>> ELSE pop[j].points \o flattenPop(pop, j + 1)

\* Every address the program can still reach, in a fixed order of traversal.
reachable(pop, best, child) == flattenPop(pop, 1) \o best \o child

firstPos(order, a) == CHOOSE q \in 1..Len(order) : order[q] = a /\ \A r \in 1..(q - 1) : order[r] # a

\* The address object a has once the unreachable objects are dropped.
newAddr(order, a) ==
    Cardinality({firstPos(order, order[q]) : q \in 1..firstPos(order, a)})

relocate(order, points) == [j \in 1..Len(points) |-> newAddr(order, points[j])]

\* Objects no variable refers to are dropped and the others renumbered in
\* the order of traversal: what a collector does, and no program can see.
compactIn(h, order, pop, best, child) ==
    [heap |-> [a \in 1..Cardinality({order[q] : q \in 1..Len(order)})
                 |-> h[CHOOSE b \in {order[q] : q \in 1..Len(order)} : newAddr(order, b) = a]],
     population |-> [j \in 1..Len(pop) |->
                       [points |-> relocate(order, pop[j].points), energy |-> pop[j].energy]],
     bestConfig |-> relocate(order, best),
     childPoints |-> relocate(order, child)]

compact(h, pop, best, child) == compactIn(h, reachable(pop, best, child), pop, best, child)

\* ------------------------------------------------- constructor, initPopulation
\* script.js:113, learningRate * 5.
timesFive(lr) == [num |-> 5 * lr.num, den |-> lr.den]

\* script.js:41, the literal 0.1.
InitialRate == [num |-> 1, den |-> 10]

\* script.js:39-43: the heap and the individual made from the random
\* vectors config.
makeIndividual(h, config, thr) ==
    LET made == allocAll(h, config, 1, <<>>)
        relaxed == gradientDescent(made.heap, made.points, InitialRate, thr)
    IN [heap |-> relaxed,
        ind |-> [points |-> made.points, energy |-> calculateEnergy(relaxed, made.points)]]

\* Mutant of Construct: the best energy of the old simulation is kept.
ConstructKeepingBest(n) ==
    /\ simN' = n
    /\ simPopSize' = populationSize'
    /\ population' = <<>>
    /\ bestConfig' = <<>>
    /\ bestEnergy' = bestEnergy
    /\ heap' = <<>>
    /\ pc' = "init"
    /\ i' = 0
    /\ initialBestEnergy' = Infinity
    /\ replaced' = <<FALSE, FALSE>>
    /\ delta' = 0
    /\ frames' = 0
    /\ UNCHANGED <<p1, p2, drawn, childPoints, inherited, edits, gd, call, mutationRate, learningRate,
                   convergenceThreshold, isRunning>>

\* script.js:26-32 and :37: the fields of a new ThomsonSimulation(n).
Construct(n) ==
    /\ simN' = n
    /\ simPopSize' = populationSize'
    /\ population' = <<>>
    /\ bestConfig' = <<>>
    /\ bestEnergy' = Infinity
    /\ heap' = <<>>
    /\ pc' = "init"
    /\ i' = 0
    /\ initialBestEnergy' = Infinity
    /\ replaced' = <<FALSE, FALSE>>
    /\ delta' = 0
    /\ frames' = 0
    /\ UNCHANGED <<p1, p2, drawn, childPoints, inherited, edits, gd, call, mutationRate, learningRate,
                   convergenceThreshold, isRunning>>

\* script.js:38-44, one round of the loop of initPopulation.
InitIndividual ==
    /\ pc = "init"
    /\ i < simPopSize
    /\ \E config \in [1..simN -> SpherePoints] :
         LET r == makeIndividual(heap, config, convergenceThreshold)
         IN /\ heap' = r.heap
            /\ population' = Append(population, r.ind)
    /\ i' = i + 1
    /\ UNCHANGED <<globalVars, isRunning, simN, simPopSize, bestConfig, bestEnergy, pc, event,
                   stepVars, frames, edits, gd, call>>

\* script.js:45, then the rest of resetSimulation (script.js:375-383).
InitDone ==
    /\ pc = "init"
    /\ i >= simPopSize
    /\ LET u == updateBest(heap, population, bestConfig, bestEnergy)
           c == compact(u.heap, u.population, u.bestConfig, <<>>)
       IN /\ heap' = c.heap
          /\ population' = c.population
          /\ bestConfig' = c.bestConfig
          /\ bestEnergy' = u.bestEnergy
    /\ isRunning' = TRUE
    /\ pc' = "idle"
    /\ UNCHANGED <<globalVars, simN, simPopSize, event, i, stepVars, frames, edits, gd, call>>

\* ------------------------------------------------------------ the handlers
\* script.js:300-304.
ResetClick ==
    /\ pc = "idle"
    /\ \E n \in NValues, p \in PopValues :
         n * p <= MaxPoints /\ nElectrons' = n /\ populationSize' = p
    /\ event' = <<"reset", isRunning>>
    /\ Construct(nElectrons')

\* script.js:306-309.
NChange ==
    /\ pc = "idle"
    /\ \E n \in NValues : n * populationSize <= MaxPoints /\ nElectrons' = n
    /\ populationSize' = populationSize
    /\ event' = <<"n", isRunning>>
    /\ Construct(nElectrons')

\* script.js:311-315.
PopChange ==
    /\ pc = "idle"
    /\ \E p \in PopValues : nElectrons * p <= MaxPoints /\ populationSize' = p
    /\ nElectrons' = nElectrons
    /\ event' = <<"pop", isRunning>>
    /\ Construct(nElectrons')

\* script.js:317-319.
MutChange ==
    /\ pc = "idle"
    /\ edits < MaxEdits
    /\ edits' = edits + 1
    /\ \E m \in MutationRates : mutationRate' = m
    /\ event' = <<"mut", isRunning>>
    /\ UNCHANGED <<nElectrons, populationSize, learningRate, convergenceThreshold, isRunning,
                   heap, simVars, pc, i, stepVars, frames, gd, call>>

\* script.js:321-323.
LrChange ==
    /\ pc = "idle"
    /\ edits < MaxEdits
    /\ edits' = edits + 1
    /\ \E lr \in LearningRates : learningRate' = lr
    /\ event' = <<"lr", isRunning>>
    /\ UNCHANGED <<nElectrons, populationSize, mutationRate, convergenceThreshold, isRunning,
                   heap, simVars, pc, i, stepVars, frames, gd, call>>

\* script.js:325-327.
ConvChange ==
    /\ pc = "idle"
    /\ edits < MaxEdits
    /\ edits' = edits + 1
    /\ \E t \in Thresholds : convergenceThreshold' = t
    /\ event' = <<"conv", isRunning>>
    /\ UNCHANGED <<nElectrons, populationSize, mutationRate, learningRate, isRunning,
                   heap, simVars, pc, i, stepVars, frames, gd, call>>

\* ---------------------------------------------------- ThomsonSimulation.step
RECURSIVE refineFromStale(_, _, _, _, _)
\* Mutant of refineFrom: the energies are not recomputed.
refineFromStale(h, pop, lr, thr, j) ==
    IF j > Len(pop) THEN [heap |-> h, population |-> pop]
    ELSE refineFromStale(gradientDescent(h, pop[j].points, lr, thr), pop, lr, thr, j + 1)

RECURSIVE refineFrom(_, _, _, _, _)
\* script.js:95-98 from individual j on: each is relaxed in place and its
\* energy recomputed.
refineFrom(h, pop, lr, thr, j) ==
    IF j > Len(pop) THEN [heap |-> h, population |-> pop]
    ELSE LET relaxed == gradientDescent(h, pop[j].points, lr, thr)
         IN refineFrom(relaxed,
                       [pop EXCEPT ![j].energy = calculateEnergy(relaxed, pop[j].points)],
                       lr, thr, j + 1)

\* script.js:103.
numToReplace == simPopSize \div 2

\* Mutant of replaceIdx: the children are written from the head.
replaceIdxFromHead(size, round) == round + 1

\* script.js:118, as a slot counted from 1.
replaceIdx(size, round) == size - round

\* Mutant of stepDelta: the difference without the absolute value, taken
\* the wrong way round.
stepDeltaSigned(before, after) == after - before

\* script.js:124.
stepDelta(before, after) == Abs(before - after)

\* Mutant of converged: a step without any change does not end the run.
convergedOnProgress(d, thr) == 0 < d /\ d < thr

\* Mutant of converged: a change equal to the threshold ends the run too.
convergedAtThreshold(d, thr) == d <= thr

\* script.js:552, the test that ends the run.
converged(d, thr) == d < thr

\* animate finds isRunning set (script.js:546) and calls step():
\* script.js:91-100, up to the first updateBest.
BeginStep ==
    /\ pc = "idle"
    /\ isRunning
    /\ LET r == refineFrom(heap, population, learningRate, convergenceThreshold, 1)
           u == updateBest(r.heap, r.population, bestConfig, bestEnergy)
           c == compact(u.heap, u.population, u.bestConfig, <<>>)
       IN /\ heap' = c.heap
          /\ population' = c.population
          /\ bestConfig' = c.bestConfig
          /\ bestEnergy' = u.bestEnergy
          /\ replaced' = <<u.replaced, FALSE>>
    /\ initialBestEnergy' = bestEnergy
    /\ pc' = "recombine"
    /\ event' = <<"frame", TRUE>>
    /\ i' = 0
    /\ p1' = 0 /\ p2' = 0 /\ drawn' = {} /\ childPoints' = <<>> /\ inherited' = 0
    /\ UNCHANGED <<globalVars, isRunning, simN, simPopSize, delta, edits, gd, call>>

\* script.js:543-547, a frame of animate while running, among the frames
\* followed.
Frame ==
    /\ frames < MaxFrames
    /\ frames' = frames + 1
    /\ BeginStep

\* script.js:105-106: the loop goes on and the first parent is selected.
SelectFirst ==
    /\ pc = "recombine"
    /\ i < numToReplace
    /\ \E draws \in [1..k -> 1..Len(population)] :
         /\ p1' = tournamentSelect(population, draws)
         /\ drawn' = {draws[j] : j \in 1..k}
    /\ pc' = "select"
    /\ UNCHANGED <<globalVars, isRunning, heap, simVars, event, i, initialBestEnergy, p2,
                   childPoints, inherited, replaced, delta, frames, edits, gd, call>>

\* script.js:107.
SelectSecond ==
    /\ pc = "select"
    /\ \E draws \in [1..k -> 1..Len(population)] :
         /\ p2' = tournamentSelect(population, draws)
         /\ drawn' = drawn \cup {draws[j] : j \in 1..k}
    /\ pc' = "crossover"
    /\ UNCHANGED <<globalVars, isRunning, heap, simVars, event, i, initialBestEnergy, p1,
                   childPoints, inherited, replaced, delta, frames, edits, gd, call>>

\* script.js:109.
Crossover ==
    /\ pc = "crossover"
    /\ \E normal \in SpherePoints :
         \E pads \in [1..padCount(heap, population[p1].points, population[p2].points, normal, simN)
                       -> SpherePoints] :
           LET r == crossover(heap, population[p1].points, population[p2].points, normal, pads, simN)
               c == compact(r.heap, population, bestConfig, r.points)
           IN /\ heap' = c.heap
              /\ childPoints' = c.childPoints
              /\ inherited' = Len(inherit(heap, population[p1].points, population[p2].points,
                                          normal).points)
    /\ p1' = 0 /\ p2' = 0 /\ drawn' = {}
    /\ pc' = "mutate"
    /\ UNCHANGED <<globalVars, isRunning, simVars, event, i, initialBestEnergy, replaced, delta, frames, edits, gd, call>>

\* script.js:110.
Mutate ==
    /\ pc = "mutate"
    /\ \E u \in RandomDraws, idx \in 1..Len(childPoints), perturbation \in SpherePoints :
         heap' = mutate(heap, childPoints, u, mutationRate, idx, perturbation)
    /\ pc' = "place"
    /\ UNCHANGED <<globalVars, isRunning, simVars, event, i, stepVars, frames, edits, gd, call>>

\* script.js:113-119: the child is relaxed, measured and written over a
\* tail slot; the loop counter advances.
Place ==
    /\ pc = "place"
    /\ LET relaxed == gradientDescent(heap, childPoints, timesFive(learningRate), convergenceThreshold)
           child == [points |-> childPoints, energy |-> calculateEnergy(relaxed, childPoints)]
           pop == [population EXCEPT ![replaceIdx(simPopSize, i)] = child]
           c == compact(relaxed, pop, bestConfig, <<>>)
       IN /\ heap' = c.heap
          /\ population' = c.population
    /\ childPoints' = <<>>
    /\ inherited' = 0
    /\ i' = i + 1
    /\ pc' = "recombine"
    /\ UNCHANGED <<globalVars, isRunning, simN, simPopSize, bestConfig, bestEnergy, event,
                   initialBestEnergy, p1, p2, drawn, replaced, delta, frames, edits, gd, call>>

\* script.js:122-124: the loop is over, step() returns; then the rest of
\* animate (script.js:548-559).
Finish ==
    /\ pc = "recombine"
    /\ i >= numToReplace
    /\ LET u == updateBest(heap, population, bestConfig, bestEnergy)
           c == compact(u.heap, u.population, u.bestConfig, <<>>)
       IN /\ heap' = c.heap
          /\ population' = c.population
          /\ bestConfig' = c.bestConfig
          /\ bestEnergy' = u.bestEnergy
          /\ replaced' = <<replaced[1], u.replaced>>
          /\ delta' = stepDelta(initialBestEnergy, u.bestEnergy)
          /\ isRunning' = IF converged(stepDelta(initialBestEnergy, u.bestEnergy), convergenceThreshold)
                          THEN FALSE ELSE isRunning
    /\ pc' = "idle"
    /\ UNCHANGED <<globalVars, simN, simPopSize, event, i, initialBestEnergy, p1, p2, drawn,
                   childPoints, inherited, frames, edits, gd, call>>

\* ---------------------------------------------------------- specification
\* init() has read the inputs (script.js:248-252), which hold the rates and
\* the threshold of script.js:13-15 (1e-8 being one unit here), and calls
\* resetSimulation (script.js:297): the constructor is about to fill the
\* population.
Init ==
    /\ nElectrons \in NValues
    /\ populationSize \in PopValues
    /\ nElectrons * populationSize <= MaxPoints
    /\ mutationRate = 20
    /\ learningRate = [num |-> 1, den |-> 100]
    /\ convergenceThreshold = 1
    /\ isRunning = FALSE
    /\ heap = <<>>
    /\ simN = nElectrons
    /\ simPopSize = populationSize
    /\ population = <<>>
    /\ bestConfig = <<>>
    /\ bestEnergy = Infinity
    /\ pc = "init"
    /\ event = <<"init", FALSE>>
    /\ i = 0
    /\ initialBestEnergy = Infinity
    /\ p1 = 0 /\ p2 = 0 /\ drawn = {} /\ childPoints = <<>> /\ inherited = 0
    /\ replaced = <<FALSE, FALSE>>
    /\ delta = 0
    /\ frames = 0
    /\ edits = 0
    /\ gd = [pc |-> "none"]
    /\ call = [op |-> "none"]

Next ==
    \/ InitIndividual
    \/ InitDone
    \/ ResetClick
    \/ NChange
    \/ PopChange
    \/ MutChange
    \/ LrChange
    \/ ConvChange
    \/ Frame
    \/ SelectFirst
    \/ SelectSecond
    \/ Crossover
    \/ Mutate
    \/ Place
    \/ Finish

Spec == Init /\ [][Next]_vars

\* ------------------------------------------------------ one run to its end
\* The frames counted in a run followed to its end; the count stays there.
MaxRunFrames == 3

\* script.js:543-547, a frame of animate while running, whatever the number
\* of frames before it.
RunFrame ==
    /\ frames' = IF frames < MaxRunFrames THEN frames + 1 ELSE frames
    /\ BeginStep

\* No handler fires: the simulation is built and animate runs frame after
\* frame.
NextRun ==
    \/ InitIndividual
    \/ InitDone
    \/ RunFrame
    \/ SelectFirst
    \/ SelectSecond
    \/ Crossover
    \/ Mutate
    \/ Place
    \/ Finish

\* script.js:546 fails from now on: the run has been ended (script.js:553).
RunOver == pc = "idle" /\ ~isRunning

\* requestAnimationFrame(animate) (script.js:544) schedules every frame
\* anew, and step() runs to its return within the frame: weak fairness of
\* NextRun, which is enabled in every state but those of RunOver.
SpecRun == Init /\ [][NextRun]_vars /\ ([]<>(RunOver) \/ []<><<NextRun>>_vars)

\* ------------------------------------------------- one gradientDescent call
\* SpecGD follows a single call of gradientDescent(points, lr) iteration by
\* iteration, for every small configuration, rate and threshold.

\* Largest configuration handed to the call.
GDMaxN == 3

\* Points of the configurations: two of them lie at the collision distance
\* and just above it from <<ONE, 0, 0>>.
GDPoints == {<<ONE, 0, 0>>, <<ONE, COLLISION_EPS, 0>>, <<ONE, COLLISION_EPS + 1, 0>>,
             <<0, ONE, 0>>, <<-ONE, 0, 0>>}

\* The rates the callers pass: 0.1 (script.js:41), learningRate
\* (script.js:96) and learningRate * 5 (script.js:113), learningRate being
\* 0.01, 0.1 or 1.
GDRates == {InitialRate}
           \cup LearningRates \cup {timesFive(lr) : lr \in LearningRates}
           \cup {[num |-> 1, den |-> 1], timesFive([num |-> 1, den |-> 1])}

\* The variables no gradientDescent call touches, at rest.
AtRest ==
    /\ nElectrons = 1 /\ populationSize = 2 /\ mutationRate = 20
    /\ learningRate = [num |-> 1, den |-> 100]
    /\ isRunning = FALSE
    /\ simN = 1 /\ simPopSize = 2 /\ population = <<>> /\ bestConfig = <<>>
    /\ bestEnergy = Infinity
    /\ pc = "gd" /\ event = <<"init", FALSE>> /\ i = 0
    /\ initialBestEnergy = Infinity
    /\ p1 = 0 /\ p2 = 0 /\ drawn = {} /\ childPoints = <<>> /\ inherited = 0
    /\ replaced = <<FALSE, FALSE>> /\ delta = 0 /\ frames = 0 /\ edits = 0
    /\ call = [op |-> "none"]

restVars == <<nElectrons, populationSize, mutationRate, learningRate, isRunning, simVars, pc,
              event, i, stepVars, frames, edits, call>>

\* script.js:128-131: the call is entered.
InitGD ==
    /\ AtRest
    /\ convergenceThreshold \in Thresholds
    /\ \E n \in 0..GDMaxN : heap \in [1..n -> GDPoints]
    /\ \E lr \in GDRates :
         gd = [pc |-> "loop", points |-> [j \in 1..Len(heap) |-> j], lr |-> lr,
               iter |-> 0, deltaEnergy |-> Infinity,
               currentEnergy |-> calculateEnergy(heap, [j \in 1..Len(heap) |-> j]),
               energies |-> <<calculateEnergy(heap, [j \in 1..Len(heap) |-> j])>>,
               deltas |-> <<>>]

\* script.js:133-164, one iteration; energies and deltas keep every value
\* currentEnergy and deltaEnergy took.
GDIteration ==
    /\ gd.pc = "loop"
    /\ gdContinue(gd.deltaEnergy, gd.iter, convergenceThreshold)
    /\ heap' = gdIterate(heap, gd.points, gd.lr)
    /\ gd' = [gd EXCEPT
                !.deltaEnergy = Abs(gd.currentEnergy - calculateEnergy(heap', gd.points)),
                !.currentEnergy = calculateEnergy(heap', gd.points),
                !.iter = gd.iter + 1,
                !.energies = Append(gd.energies, calculateEnergy(heap', gd.points)),
                !.deltas = Append(gd.deltas,
                                  Abs(gd.currentEnergy - calculateEnergy(heap', gd.points)))]
    /\ UNCHANGED <<restVars, convergenceThreshold>>

\* script.js:133 fails and the call returns (script.js:165).
GDReturn ==
    /\ gd.pc = "loop"
    /\ ~gdContinue(gd.deltaEnergy, gd.iter, convergenceThreshold)
    /\ gd' = [gd EXCEPT !.pc = "returned"]
    /\ UNCHANGED <<restVars, convergenceThreshold, heap>>

NextGD ==
    \/ GDIteration
    \/ GDReturn

SpecGD == InitGD /\ [][NextGD]_vars

\* ------------------------------------------------ single calls of a method
\* SpecCalls follows one call of tournamentSelect (made twice, as step()
\* does), crossover, mutate or calculateEdgeGroups (made through its two
\* callers), with the arguments and random values in call.

\* Largest configuration handed to crossover and mutate.
CallMaxN == 2

\* Points of the configurations handed to the calls.
CallPoints == {<<ONE, 0, 0>>, <<0, ONE, 0>>, <<-ONE, 0, 0>>, <<0, 0, ONE>>}

\* Values Math.random() takes at script.js:216, in hundredths.
CallDraws == {0, 10, 60}

\* The variables that keep one value through every call.
callRest == <<nElectrons, populationSize, learningRate, convergenceThreshold, isRunning,
              simN, simPopSize, bestEnergy, pc, event, i, stepVars, frames, edits, gd>>

\* The values of the variables no call reads.
CallsAtRest ==
    /\ learningRate = [num |-> 1, den |-> 100]
    /\ convergenceThreshold = 1
    /\ isRunning = TRUE
    /\ pc = "call" /\ event = <<"frame", TRUE>> /\ i = 0
    /\ initialBestEnergy = Infinity
    /\ p1 = 0 /\ p2 = 0 /\ drawn = {} /\ childPoints = <<>> /\ inherited = 0
    /\ replaced = <<FALSE, FALSE>> /\ delta = 0 /\ frames = 0 /\ edits = 0
    /\ gd = [pc |-> "none"]

\* The heap that holds the configurations configs[1], configs[2], ... of n
\* points each, one after the other.
heapOf(configs, n) ==
    [a \in 1..(Len(configs) * n) |-> configs[((a - 1) \div n) + 1][((a - 1) % n) + 1]]

\* The addresses of configuration j in heapOf(configs, n).
pointsOf(j, n) == [m \in 1..n |-> (j - 1) * n + m]

\* The population whose individuals hold the configurations configs, each
\* with its energy.
populationOf(configs, n) ==
    [j \in 1..Len(configs) |->
        [points |-> pointsOf(j, n),
         energy |-> calculateEnergy(heapOf(configs, n), pointsOf(j, n))]]

\* script.js:100-107: at a tournament the population stands sorted but for
\* the tail slots the pass has written since.
TournamentReady(pop) ==
    \E r \in 0..((Len(pop) \div 2) - 1) :
        \A a, b \in 1..(Len(pop) - r) : a < b => pop[a].energy <= pop[b].energy

\* Configurations of two points with energies that differ and that tie.
TournamentConfigs == {<<<<ONE, 0, 0>>, <<-ONE, 0, 0>>>>,
                      <<<<ONE, 0, 0>>, <<0, ONE, 0>>>>,
                      <<<<0, ONE, 0>>, <<0, 0, ONE>>>>}

\* step() is about to select the parents of a child (script.js:106).
InitTournament ==
    /\ CallsAtRest
    /\ mutationRate = 20
    /\ \E size \in PopValues : \E configs \in [1..size -> TournamentConfigs] :
         /\ TournamentReady(populationOf(configs, 2))
         /\ nElectrons = 2 /\ simN = 2
         /\ populationSize = size /\ simPopSize = size
         /\ heap = heapOf(configs, 2)
         /\ population = populationOf(configs, 2)
    /\ bestConfig = <<>>
    /\ bestEnergy = 0
    /\ call = [op |-> "tournamentSelect", made |-> 0, draws |-> <<>>, result |-> 0,
               first |-> 0]

\* script.js:106 or :107: one call of tournamentSelect, draws being the
\* slots of script.js:171; first keeps what the call before returned.
TournamentCall ==
    /\ call.op = "tournamentSelect"
    /\ call.made < 2
    /\ \E draws \in [1..k -> 1..Len(population)] :
         call' = [call EXCEPT !.made = call.made + 1,
                              !.draws = draws,
                              !.result = tournamentSelect(population, draws),
                              !.first = call.result]
    /\ UNCHANGED <<callRest, mutationRate, heap, population, bestConfig>>

\* step() is about to mutate a child (script.js:110): the child, its points
\* fresh objects, and another object besides.
InitMutate ==
    /\ CallsAtRest
    /\ mutationRate \in MutationRates
    /\ \E n \in 1..CallMaxN : \E config \in [1..(n + 1) -> CallPoints] :
         /\ nElectrons = n /\ simN = n
         /\ heap = config
         /\ call = [op |-> "mutate", stage |-> "called", points |-> [m \in 1..n |-> m],
                    before |-> config, u |-> 0, idx |-> 1, perturbation |-> <<ONE, 0, 0>>]
    /\ populationSize = 2 /\ simPopSize = 2
    /\ population = <<>>
    /\ bestConfig = <<>>
    /\ bestEnergy = 0

\* script.js:215-221, with the random values of lines 216-218.
MutateCall ==
    /\ call.op = "mutate"
    /\ call.stage = "called"
    /\ \E u \in CallDraws, idx \in 1..Len(call.points), perturbation \in CallPoints :
         /\ heap' = mutate(heap, call.points, u, mutationRate, idx, perturbation)
         /\ call' = [call EXCEPT !.stage = "returned", !.u = u, !.idx = idx,
                                 !.perturbation = perturbation]
    /\ UNCHANGED <<callRest, mutationRate, population, bestConfig>>

\* step() is about to call crossover(p1.points, p2.points) (script.js:109):
\* two parents of n points each, or one individual selected twice.
InitCrossover ==
    /\ CallsAtRest
    /\ mutationRate = 20
    /\ \E n \in 1..CallMaxN : \E configs \in [1..2 -> [1..n -> CallPoints]] :
         /\ nElectrons = n /\ simN = n
         /\ heap = heapOf(configs, n)
         /\ population = populationOf(configs, n)
         /\ \E second \in 1..2, normal \in CallPoints :
              call = [op |-> "crossover", stage |-> "called",
                      parentA |-> pointsOf(1, n), parentB |-> pointsOf(second, n),
                      normal |-> normal, before |-> heapOf(configs, n),
                      kept |-> <<>>, child |-> <<>>, pads |-> <<>>, rounds |-> 0]
    /\ populationSize = 2 /\ simPopSize = 2
    /\ bestConfig = <<>>
    /\ bestEnergy = 0

\* script.js:180-189, normal being the point of line 180.
CrossoverInherit ==
    /\ call.op = "crossover"
    /\ call.stage = "called"
    /\ heap' = inherit(heap, call.parentA, call.parentB, call.normal).heap
    /\ call' = [call EXCEPT
                  !.stage = "inherited",
                  !.kept = inherit(heap, call.parentA, call.parentB, call.normal).points,
                  !.child = inherit(heap, call.parentA, call.parentB, call.normal).points]
    /\ UNCHANGED <<callRest, mutationRate, population, bestConfig>>

\* script.js:191-193, pads being the points randomPointOnSphere returns.
CrossoverPad ==
    /\ call.op = "crossover"
    /\ call.stage = "inherited"
    /\ \E pads \in [1..padCount(heap, call.parentA, call.parentB, call.normal, simN)
                     -> CallPoints] :
         /\ heap' = allocAll(heap, pads, 1, call.child).heap
         /\ call' = [call EXCEPT !.stage = "padded", !.pads = pads,
                                 !.child = allocAll(heap, pads, 1, call.child).points]
    /\ UNCHANGED <<callRest, mutationRate, population, bestConfig>>

\* script.js:194-211, one round of the trimming loop.
CrossoverTrim ==
    /\ call.op = "crossover"
    /\ call.stage = "padded"
    /\ Len(call.child) > simN
    /\ call' = [call EXCEPT !.child = trimOnce(heap, call.child),
                            !.rounds = call.rounds + 1]
    /\ UNCHANGED <<callRest, mutationRate, heap, population, bestConfig>>

\* script.js:194 fails and the child is returned (script.js:212).
CrossoverReturn ==
    /\ call.op = "crossover"
    /\ call.stage = "padded"
    /\ ~(Len(call.child) > simN)
    /\ call' = [call EXCEPT !.stage = "returned"]
    /\ UNCHANGED <<callRest, mutationRate, heap, population, bestConfig>>

\* script.js:110, this.mutate(childPoints) on the child crossover returned.
ChildMutate ==
    /\ call.op = "crossover"
    /\ call.stage = "returned"
    /\ \E u \in RandomDraws, idx \in 1..Len(call.child), perturbation \in SpherePoints :
         heap' = mutate(heap, call.child, u, mutationRate, idx, perturbation)
    /\ call' = [call EXCEPT !.stage = "mutated"]
    /\ UNCHANGED <<callRest, mutationRate, population, bestConfig>>

\* script.js:113-119 in the first round of the loop: gradientDescent on the
\* child, which then takes the last slot of the population.
ChildPlace ==
    /\ call.op = "crossover"
    /\ call.stage = "mutated"
    /\ LET relaxed == gradientDescent(heap, call.child, timesFive(learningRate),
                                      convergenceThreshold)
       IN /\ heap' = relaxed
          /\ population' = [population EXCEPT ![replaceIdx(simPopSize, 0)] =
                               [points |-> call.child,
                                energy |-> calculateEnergy(relaxed, call.child)]]
    /\ call' = [call EXCEPT !.stage = "placed"]
    /\ UNCHANGED <<callRest, mutationRate, bestConfig>>

\* --------------------------------------------------- calculateEdgeGroups
\* Edge lengths are kept in units of 1/(LenScale * ONE), finer than the
\* grouping threshold of script.js:453.
LenScale == 100

\* Largest configuration handed to calculateEdgeGroups.
MaxHullPoints == 4

\* The calls of calculateEdgeGroups followed on one configuration.
MaxCalls == 2

\* Points of the configurations handed to calculateEdgeGroups.
HullPoints == {<<ONE, 0, 0>>, <<0, ONE, 0>>, <<0, 0, ONE>>, <<-ONE, 1, 0>>,
               <<0, -5, -ONE>>}

\* script.js:429, the digits toFixed(4) prints for one coordinate.
toFixed4(x) == RDiv(x * 10000, ONE)

\* script.js:429, getVertexKey.
getVertexKey(v) == <<toFixed4(v[1]), toFixed4(v[2]), toFixed4(v[3])>>

\* Mutant of edgeKey: the two vertex keys joined as they come.
edgeKeyOriented(a, b) == <<getVertexKey(a), getVertexKey(b)>>

\* script.js:445, the two vertex keys joined in string order: the same for
\* (a, b) and (b, a).
edgeKey(a, b) == {getVertexKey(a), getVertexKey(b)}

\* script.js:447, a.distanceTo(b).
edgeLength(a, b) == Sqrt(lengthSq(subVectors(a, b)) * LenScale * LenScale)

\* script.js:441-449, processEdge on the edges found so far.
processEdge(uniqueEdges, a, b) ==
    IF getVertexKey(a) = getVertexKey(b) THEN uniqueEdges
    ELSE IF \E e \in 1..Len(uniqueEdges) : uniqueEdges[e].key = edgeKey(a, b) THEN uniqueEdges
    ELSE Append(uniqueEdges,
                [key |-> edgeKey(a, b), start |-> a, end |-> b, len |-> edgeLength(a, b)])

\* script.js:433-438, the three edges of one triangle.
processTriangle(uniqueEdges, t) ==
    processEdge(processEdge(processEdge(uniqueEdges, t[1], t[2]), t[2], t[3]), t[3], t[1])

RECURSIVE collectEdges(_, _, _)
\* script.js:432-439 from triangle j on, and :451.
collectEdges(hull, j, uniqueEdges) ==
    IF j > Len(hull) THEN uniqueEdges
    ELSE collectEdges(hull, j + 1, processTriangle(uniqueEdges, hull[j]))

\* script.js:458, Math.abs(g.len - edge.len) < threshold, threshold being
\* 1e-2 (script.js:453).
withinThreshold(groupLen, edgeLen) == Abs(groupLen - edgeLen) * 100 < ONE * LenScale

RECURSIVE findGroupLast(_, _, _)
\* Mutant of findGroup: the loop has no break and the last group within
\* the threshold is the one found.
findGroupLast(groups, edge, j) ==
    IF j > Len(groups) THEN 0
    ELSE IF findGroupLast(groups, edge, j + 1) # 0 THEN findGroupLast(groups, edge, j + 1)
    ELSE IF withinThreshold(groups[j].len, edge.len) THEN j
    ELSE 0

RECURSIVE findGroup(_, _, _)
\* script.js:456-462 from group j on: the group found, 0 for null.
findGroup(groups, edge, j) ==
    IF j > Len(groups) THEN 0
    ELSE IF withinThreshold(groups[j].len, edge.len) THEN j
    ELSE findGroup(groups, edge, j + 1)

\* script.js:455-467, the body of edges.forEach.
placeEdge(groups, edge) ==
    IF findGroup(groups, edge, 1) # 0
    THEN [groups EXCEPT ![findGroup(groups, edge, 1)].edges = Append(@, edge)]
    ELSE Append(groups, [len |-> edge.len, edges |-> <<edge>>])

RECURSIVE groupEdges(_, _, _)
\* script.js:455-468 from edge j on.
groupEdges(edges, j, groups) ==
    IF j > Len(edges) THEN groups
    ELSE groupEdges(edges, j + 1, placeEdge(groups, edges[j]))

RECURSIVE insertByLenDescending(_, _)
\* Mutant of insertByLen: the comparison is b.len - a.len.
insertByLenDescending(sorted, g) ==
    IF sorted = <<>> THEN <<g>>
    ELSE IF sorted[Len(sorted)].len >= g.len THEN Append(sorted, g)
    ELSE Append(insertByLenDescending(SubSeq(sorted, 1, Len(sorted) - 1), g),
                sorted[Len(sorted)])

RECURSIVE insertByLen(_, _)
\* script.js:471, one group put in its place among those sorted so far.
insertByLen(sorted, g) ==
    IF sorted = <<>> THEN <<g>>
    ELSE IF sorted[Len(sorted)].len <= g.len THEN Append(sorted, g)
    ELSE Append(insertByLen(SubSeq(sorted, 1, Len(sorted) - 1), g), sorted[Len(sorted)])

RECURSIVE sortByLen(_)
\* script.js:471, groups.sort((a, b) => a.len - b.len).
sortByLen(groups) ==
    IF groups = <<>> THEN <<>>
    ELSE insertByLen(sortByLen(SubSeq(groups, 1, Len(groups) - 1)), groups[Len(groups)])

\* Mutant of usesHull: three points are enough for the hull.
usesHullFromThree(points, loaded) == ~(Len(points) < 3 \/ ~loaded)

\* script.js:425, whether the call goes on to new THREE.ConvexGeometry.
usesHull(points, loaded) == ~(Len(points) < 4 \/ ~loaded)

\* script.js:424-473: points are the vectors handed in, loaded tells
\* whether THREE.ConvexGeometry is there, hull is the list of triangles
\* its position array holds, groups what the grouping starts from
\* (script.js:452).
groupsFrom(points, loaded, hull, groups) ==
    IF ~usesHull(points, loaded) THEN <<>>
    ELSE sortByLen(groupEdges(collectEdges(hull, 1, <<>>), 1, groups))

\* script.js:424-473.
calculateEdgeGroups(points, loaded, hull) == groupsFrom(points, loaded, hull, <<>>)

\* script.js:451, the local edges of the call: the values of uniqueEdges in
\* the order they were set.
edgesOf(points, loaded, hull) ==
    IF ~usesHull(points, loaded) THEN <<>>
    ELSE collectEdges(hull, 1, <<>>)

\* script.js:452-468, the local groups of the call when edges.forEach is
\* over, before the sort of script.js:471 reorders it.
groupedOf(points, loaded, hull) ==
    IF ~usesHull(points, loaded) THEN <<>>
    ELSE groupEdges(collectEdges(hull, 1, <<>>), 1, <<>>)

RECURSIVE cylinders(_, _)
\* script.js:504-537 from group j on, every length being visible: one
\* cylinder for each edge.
cylinders(groups, j) ==
    IF j > Len(groups) THEN <<>>
    ELSE [e \in 1..Len(groups[j].edges) |->
             [start |-> groups[j].edges[e].start, end |-> groups[j].edges[e].end]]
         \o cylinders(groups, j + 1)

\* script.js:396-421, the items of the list: length and number of edges.
listItems(groups) == [j \in 1..Len(groups) |-> [len |-> groups[j].len,
                                                count |-> Len(groups[j].edges)]]

\* Triangulations THREE.ConvexGeometry may hand back for the points: the
\* faces of the tetrahedron on the first four, in two orders.
Hulls(points) ==
    IF Len(points) < 4 THEN {<<>>}
    ELSE {<<<<points[1], points[2], points[3]>>, <<points[1], points[4], points[2]>>,
            <<points[2], points[4], points[3]>>, <<points[3], points[4], points[1]>>>>,
          <<<<points[4], points[3], points[2]>>, <<points[1], points[3], points[4]>>,
            <<points[1], points[2], points[4]>>, <<points[3], points[2], points[1]>>>>}

\* A best configuration is on display (script.js:376, 548, 556).
InitEdges ==
    /\ CallsAtRest
    /\ mutationRate = 20
    /\ \E n \in 0..MaxHullPoints : \E config \in [1..n -> HullPoints] :
         /\ nElectrons = n /\ simN = n
         /\ heap = config
         /\ bestConfig = [m \in 1..n |-> m]
         /\ \E loaded \in BOOLEAN, hull \in Hulls(config) :
              call = [op |-> "calculateEdgeGroups", loaded |-> loaded, hull |-> hull,
                      callers |-> <<>>, returned |-> <<>>, hulls |-> 0,
                      edges |-> <<>>, grouped |-> <<>>,
                      hullMesh |-> [present |-> FALSE, cylinders |-> <<>>],
                      list |-> <<>>]
    /\ populationSize = 2 /\ simPopSize = 2
    /\ population = <<>>
    /\ bestEnergy = 0

\* script.js:475-541, updateVisualization.
UpdateVisualization ==
    /\ call.op = "calculateEdgeGroups"
    /\ Len(call.returned) < MaxCalls
    /\ LET groups == calculateEdgeGroups(Values(heap, bestConfig), call.loaded, call.hull)
       IN call' = [call EXCEPT
                     !.callers = Append(@, "updateVisualization"),
                     !.returned = Append(@, groups),
                     !.edges = edgesOf(Values(heap, bestConfig), call.loaded, call.hull),
                     !.grouped = groupedOf(Values(heap, bestConfig), call.loaded,
                                           call.hull),
                     !.hulls = IF usesHull(Values(heap, bestConfig), call.loaded)
                               THEN @ + 1 ELSE @,
                     !.hullMesh = IF Len(groups) > 0
                                  THEN [present |-> TRUE, cylinders |-> cylinders(groups, 1)]
                                  ELSE [present |-> FALSE, cylinders |-> <<>>]]
    /\ UNCHANGED <<callRest, mutationRate, heap, population, bestConfig>>

\* Mutant of RenderEdgeList: the grouping goes on from the groups the call
\* before returned.
RenderEdgeListAccumulating ==
    /\ call.op = "calculateEdgeGroups"
    /\ Len(call.returned) < MaxCalls
    /\ LET groups == groupsFrom(Values(heap, bestConfig), call.loaded, call.hull,
                                IF call.returned = <<>> THEN <<>>
                                ELSE call.returned[Len(call.returned)])
       IN call' = [call EXCEPT
                     !.callers = Append(@, "renderEdgeList"),
                     !.returned = Append(@, groups),
                     !.edges = edgesOf(Values(heap, bestConfig), call.loaded, call.hull),
                     !.grouped = groupedOf(Values(heap, bestConfig), call.loaded,
                                           call.hull),
                     !.hulls = IF usesHull(Values(heap, bestConfig), call.loaded)
                               THEN @ + 1 ELSE @,
                     !.list = listItems(groups)]
    /\ UNCHANGED <<callRest, mutationRate, heap, population, bestConfig>>

\* script.js:386-422, renderEdgeList.
RenderEdgeList ==
    /\ call.op = "calculateEdgeGroups"
    /\ Len(call.returned) < MaxCalls
    /\ LET groups == calculateEdgeGroups(Values(heap, bestConfig), call.loaded, call.hull)
       IN call' = [call EXCEPT
                     !.callers = Append(@, "renderEdgeList"),
                     !.returned = Append(@, groups),
                     !.edges = edgesOf(Values(heap, bestConfig), call.loaded, call.hull),
                     !.grouped = groupedOf(Values(heap, bestConfig), call.loaded,
                                           call.hull),
                     !.hulls = IF usesHull(Values(heap, bestConfig), call.loaded)
                               THEN @ + 1 ELSE @,
                     !.list = listItems(groups)]
    /\ UNCHANGED <<callRest, mutationRate, heap, population, bestConfig>>

InitCalls ==
    \/ InitTournament
    \/ InitMutate
    \/ InitCrossover
    \/ InitEdges

NextCalls ==
    \/ TournamentCall
    \/ MutateCall
    \/ CrossoverInherit
    \/ CrossoverPad
    \/ CrossoverTrim
    \/ CrossoverReturn
    \/ ChildMutate
    \/ ChildPlace
    \/ UpdateVisualization
    \/ RenderEdgeList

SpecCalls == InitCalls /\ [][NextCalls]_vars

\* =================================================================== claims

\* The addresses held by the individuals of the population.
PopulationAddrs == {population[j].points[m] :
                        j \in 1..Len(population), m \in 1..simN} \cap 1..Len(heap)

\* The slots written so far in the recombination pass under way.
WrittenSlots == {replaceIdx(simPopSize, round) : round \in 0..(i - 1)}

\* step() is running or has returned at least once on this simulation.
Stepped == pc \notin {"init", "gd"} /\ frames > 0

\* bestEnergy after a returned step() is not above bestEnergy before it.
C1_AcrossStep == (pc = "idle" /\ Stepped) => bestEnergy <= initialBestEnergy

\* No transition of a constructed simulation raises bestEnergy, and a
\* transition that changes the best record lowers bestEnergy strictly.
C1_EachUpdate ==
    (pc' # "init" /\ pc # "gd") =>
        /\ bestEnergy' <= bestEnergy
        /\ (replaced'[1] /\ pc = "idle") => bestEnergy' < bestEnergy
        /\ (replaced'[2] /\ pc' = "idle" /\ pc = "recombine") => bestEnergy' < bestEnergy
        /\ Values(heap', bestConfig') # Values(heap, bestConfig) => bestEnergy' < bestEnergy

\* C1: across the step() calls on one simulation bestEnergy never rises, and
\* updateBest replaces the best record only by a configuration of strictly
\* lower energy.
C1_BestMonotone == [](C1_AcrossStep) /\ [][C1_EachUpdate]_vars

\* Two steps have returned and the second updateBest of the last one
\* lowered the best energy.
C1_Witness ==
    /\ pc = "idle"
    /\ frames = MaxFrames
    /\ replaced[2]
    /\ bestEnergy < initialBestEnergy

\* C2 as stated: within one recombination pass no tournament candidate and
\* no parent is a child written into a tail slot earlier in that pass.
C2_ParentsPredatePass ==
    pc \in {"select", "crossover"} =>
        /\ drawn \cap WrittenSlots = {}
        /\ p1 \notin WrittenSlots
        /\ pc = "crossover" => p2 \notin WrittenSlots

\* C3: crossover returns exactly N points, whether it padded or trimmed.
C3_Cardinality ==
    pc \in {"mutate", "place"} =>
        /\ Len(childPoints) = simN
        /\ \A m \in 1..Len(childPoints) : childPoints[m] \in 1..Len(heap)

\* A child for which the two half-selections totalled more than N points.
C3_Witness ==
    /\ pc = "mutate"
    /\ inherited > simN
    /\ Len(childPoints) = simN

\* C4, one transition: Running is left only by a returned step() whose
\* delta is below the threshold, and every such step() leaves it; while
\* Converged nothing but a reset touches the simulation, and Running is
\* entered again only at the end of resetSimulation.
C4_Transition ==
    pc # "gd" =>
        /\ (isRunning /\ ~isRunning') =>
              pc = "recombine" /\ pc' = "idle" /\ delta' < convergenceThreshold
        /\ (pc = "recombine" /\ pc' = "idle") =>
              (isRunning' <=> ~(delta' < convergenceThreshold))
        /\ (~isRunning /\ pc = "idle") =>
              \/ pc' = "init" /\ event'[1] \in {"reset", "n", "pop"}
              \/ /\ UNCHANGED <<isRunning, heap, simVars, frames, pc, stepVars>>
                 /\ event'[1] \in {"mut", "lr", "conv"}
        /\ (~isRunning /\ isRunning') => pc = "init" /\ pc' = "idle"

\* C4: the controller goes from Running to Converged exactly on a frame
\* whose step() returns a delta below convergenceThreshold, and once
\* Converged no frame calls step() again, whatever rate or threshold is
\* changed, until resetSimulation re-initialises the population.
C4_ConvergedTerminal == [][C4_Transition]_vars

\* Converged, and a rate or the threshold was changed while Converged.
C4_Witness ==
    /\ pc = "idle"
    /\ ~isRunning
    /\ event[1] \in {"mut", "lr", "conv"}
    /\ event[2] = FALSE
    /\ frames > 0

\* C5: after the reset button, a change of N or a change of P, from any
\* state, the controller is Running with a fresh simulation: n is
\* nElectrons, the population has populationSize individuals, no step has
\* been made on it, the best record is a copy of the best new individual,
\* and no point object but those of the new simulation is left.
C5_FreshAfterReset ==
    (pc = "idle" /\ event[1] \in {"reset", "n", "pop"}) =>
        /\ isRunning
        /\ simN = nElectrons
        /\ simPopSize = populationSize
        /\ Len(population) = populationSize
        /\ \A j \in 1..Len(population) : Len(population[j].points) = nElectrons
        /\ frames = 0
        /\ bestEnergy = population[1].energy
        /\ \A j \in 1..Len(population) : bestEnergy <= population[j].energy
        /\ Len(bestConfig) = nElectrons
        /\ Values(heap, bestConfig) = Values(heap, population[1].points)
        /\ Len(heap) = (populationSize + 1) * nElectrons

\* A change of P made while Converged has been served.
C5_Witness ==
    /\ pc = "idle"
    /\ event = <<"pop", FALSE>>
    /\ isRunning
    /\ Len(population) = populationSize

\* C6: the stored energy of every individual is calculateEnergy of its
\* points as they are, in every state in which an energy can be read: at
\* the return of the constructor and of step(), and at every sort and
\* tournament in between.
C6_NoStaleEnergy ==
    pc # "gd" =>
        \A j \in 1..Len(population) :
            population[j].energy = calculateEnergy(heap, population[j].points)

\* A recombination pass is over, with children placed, after a refinement
\* that lowered the best energy.
C6_Witness ==
    /\ pc = "recombine"
    /\ i = numToReplace
    /\ replaced[1]
    /\ simN = 2

\* The best record shares no point object with the population or with a
\* child under construction, and bestEnergy is the energy of bestConfig.
C7_Independent ==
    (pc # "gd" /\ bestEnergy < Infinity) =>
        /\ Len(bestConfig) = simN
        /\ \A m \in 1..Len(bestConfig) : bestConfig[m] \notin PopulationAddrs
        /\ \A m \in 1..Len(bestConfig), c \in 1..Len(childPoints) :
              bestConfig[m] # childPoints[c]
        /\ \A m, c \in 1..Len(bestConfig) : m # c => bestConfig[m] # bestConfig[c]
        /\ bestEnergy = calculateEnergy(heap, bestConfig)

\* A transition that is not a replacement of the best record leaves the
\* points of bestConfig as they were.
C7_Untouched ==
    (pc # "gd" /\ pc' # "init" /\ bestEnergy' = bestEnergy) =>
        Values(heap', bestConfig') = Values(heap, bestConfig)

\* C7: the best record is an independent deep copy: bestConfig shares no
\* point object with any population member, later refinement, mutation or
\* replacement of population members never changes it, and bestEnergy is
\* always calculateEnergy(bestConfig).
C7_DeepCopy == [](C7_Independent) /\ [][C7_Untouched]_vars

\* A step has returned without replacing the best record although the
\* population was refined, and the best individual no longer is where the
\* best record is.
C7_Witness ==
    /\ pc = "idle"
    /\ frames > 0
    /\ simN = 2
    /\ Values(heap, population[1].points) # Values(heap, bestConfig)

\* C8: the value step() returns is |bestEnergy before - bestEnergy after|,
\* never negative, and 0 exactly when neither updateBest call of the step
\* replaced the best record.
C8_StepDelta ==
    (pc = "idle" /\ Stepped) =>
        /\ delta = Abs(initialBestEnergy - bestEnergy)
        /\ delta >= 0
        /\ delta = 0 <=> replaced = <<FALSE, FALSE>>

\* A step has returned a positive delta, its second updateBest having
\* replaced the best record.
C8_Witness ==
    /\ pc = "idle"
    /\ Stepped
    /\ delta > 0
    /\ replaced[2]

\* The unordered pairs of indices of a configuration of n points.
PairsOf(n) == {pr \in (1..n) \X (1..n) : pr[1] < pr[2]}

RECURSIVE SumInverse(_, _, _)
\* The sum, over the pairs of index pairs prs, of 1/distance, a pair whose
\* distance is below bound counting for the penalty instead.
SumInverse(h, prs, bound) ==
    IF prs = {} THEN 0
    ELSE LET pr == CHOOSE x \in prs : TRUE
             d == distanceTo(h[pr[1]], h[pr[2]])
         IN (IF d < bound THEN COLLISION_PENALTY ELSE Recip(d))
            + SumInverse(h, prs \ {pr}, bound)

\* The energy gradientDescent holds is the energy of the points as they are.
GDMeasured == gd.pc \in {"loop", "returned"}

\* C9 as stated: calculateEnergy is the sum over the unordered pairs of
\* 1/distance, a pair below the collision distance counting for the penalty
\* and a pair exactly at it for 1/distance; 0 for at most one point and
\* 1/distance for two.
C9_AsClaimed ==
    GDMeasured =>
        /\ gd.currentEnergy = SumInverse(heap, PairsOf(Len(heap)), COLLISION_EPS)
        /\ Len(heap) <= 1 => gd.currentEnergy = 0

\* C9 amended: the penalty also stands for a pair exactly at the collision
\* distance; only a pair above it contributes 1/distance.  The sum is 0 for
\* at most one point, and for two points apart it is 1/distance.
C9_Energy ==
    GDMeasured =>
        /\ gd.currentEnergy = SumInverse(heap, PairsOf(Len(heap)), COLLISION_EPS + 1)
        /\ Len(heap) <= 1 => gd.currentEnergy = 0
        /\ (Len(heap) = 2 /\ distanceTo(heap[1], heap[2]) > COLLISION_EPS)
              => gd.currentEnergy = Recip(distanceTo(heap[1], heap[2]))

\* Three points measured, one pair exactly at the collision distance and
\* one pair apart.
C9_Witness ==
    /\ GDMeasured
    /\ Len(heap) = 3
    /\ \E pr \in PairsOf(3) : distanceTo(heap[pr[1]], heap[pr[2]]) = COLLISION_EPS
    /\ \E pr \in PairsOf(3) : distanceTo(heap[pr[1]], heap[pr[2]]) > COLLISION_EPS

\* C10 as stated: the call returns after the first iteration whose energy
\* change is below the threshold, or at the cap of maxIter iterations.
C10_AsClaimed ==
    gd.pc = "returned" =>
        \/ gd.deltaEnergy < convergenceThreshold
        \/ gd.iter = maxIter

\* The iterations made so far were all called for, and a call that has
\* returned made its last one at the cap or with a change not above the
\* threshold.
C10_Stop ==
    GDMeasured =>
        /\ gd.iter <= maxIter
        /\ Len(gd.deltas) = gd.iter
        /\ \A j \in 1..(gd.iter - 1) : gd.deltas[j] > convergenceThreshold
        /\ gd.pc = "returned" =>
              /\ gd.iter >= 1
              /\ gd.deltas[gd.iter] <= convergenceThreshold \/ gd.iter = maxIter

\* From inside the loop the call iterates once more when the last change is
\* above the threshold and the cap is not reached, and returns otherwise.
C10_Goes ==
    gd.pc = "loop" =>
        IF gd.iter < maxIter /\ gd.deltaEnergy > convergenceThreshold
        THEN gd'.pc = "loop" /\ gd'.iter = gd.iter + 1
        ELSE gd'.pc = "returned" /\ gd'.iter = gd.iter /\ heap' = heap

\* C10 amended: the call returns after the first iteration whose energy
\* change is not above the threshold (below it or equal to it), or after
\* maxIter iterations, whichever comes first; it iterates as long as the
\* change is above the threshold and the cap is not reached; at the cap it
\* returns like any other call.
C10_Termination == [](C10_Stop) /\ [][C10_Goes]_vars

\* A call that returned at the cap, its last change still above the
\* threshold.
C10_Witness ==
    /\ gd.pc = "returned"
    /\ gd.iter = maxIter
    /\ gd.deltaEnergy > convergenceThreshold

\* C11 as stated: inside one gradientDescent call every energy evaluation
\* is at most the one before it.
C11_NonIncreasing ==
    GDMeasured =>
        \A j \in 1..(Len(gd.energies) - 1) : gd.energies[j + 1] <= gd.energies[j]

\* The length of v is 1, to the resolution of the arithmetic.
UnitNorm(v) == Abs(Sqrt(lengthSq(v)) - ONE) <= 1

\* C12: every point of every configuration (population members, children,
\* best record) has norm 1 after any gradientDescent, crossover or mutate
\* and after randomPointOnSphere; none is of length zero.
C12_UnitNorm ==
    /\ \A a \in 1..Len(heap) : UnitNorm(heap[a]) /\ heap[a] # <<0, 0, 0>>
    /\ \A j \in 1..Len(population) :
          \A m \in 1..Len(population[j].points) : population[j].points[m] \in 1..Len(heap)
    /\ \A m \in 1..Len(bestConfig) : bestConfig[m] \in 1..Len(heap)
    /\ \A m \in 1..Len(childPoints) : childPoints[m] \in 1..Len(heap)

\* A child that mutate displaced, about to be relaxed, in a population
\* gradientDescent has moved.
C12_Witness ==
    /\ pc = "place"
    /\ \E m \in 1..Len(childPoints) : heap[childPoints[m]] \notin SpherePoints
    /\ \E j \in 1..Len(population), m \in 1..simN :
          heap[population[j].points[m]] \notin SpherePoints

\* No configuration of n points on the unit sphere has an energy below
\* this: each of its pairs is at most a diameter apart.
EnergyFloor(n) == Cardinality(PairsOf(n)) * Recip(2 * ONE)

\* A step() that started with the best record at the global optimum has
\* returned a delta below the threshold and the controller is Converged.
C15_Stops ==
    (pc = "idle" /\ Stepped /\ initialBestEnergy <= EnergyFloor(simN)) =>
        /\ delta = 0
        /\ delta < convergenceThreshold
        /\ ~isRunning

\* A step() that cannot lower the best energy returns 0 and ends the run.
C15_Transition ==
    (pc = "recombine" /\ pc' = "idle" /\ bestEnergy' = initialBestEnergy) =>
        /\ delta' = 0
        /\ delta' < convergenceThreshold'
        /\ ~isRunning'

\* C15: with the best record at the global optimum, the first step() made
\* reports a delta below the threshold and the status becomes Converged;
\* the controller does not stay Running.
C15_OptimumConverges == [](C15_Stops) /\ [][C15_Transition]_vars

\* Two points a diameter apart were the best record when a step() started;
\* that step has returned.
C15_Witness ==
    /\ pc = "idle"
    /\ Stepped
    /\ simN = 2
    /\ initialBestEnergy <= EnergyFloor(simN)
    /\ ~isRunning

\* step() is inside its recombination pass.
InPass == pc \in {"recombine", "select", "crossover", "mutate", "place"}

\* Slot j of the population holds the same points and energy after the
\* transition as before it.
SlotKept(j) ==
    /\ population'[j].energy = population[j].energy
    /\ Values(heap', population'[j].points) = Values(heap, population[j].points)

\* During the pass the population keeps its length, and the slots not yet
\* written stand as the sort after the refinement left them, lowest energy
\* first, the children so far being in the slots behind them.
C16_Untouched ==
    InPass =>
        /\ Len(population) = simPopSize
        /\ i <= simPopSize \div 2
        /\ \A a, b \in 1..(simPopSize - i) :
              a < b => population[a].energy <= population[b].energy

\* A child is written over the last slot not yet written and over nothing
\* else, nothing else in the pass writes a slot, and the pass ends after
\* floor(P/2) children.
C16_Write ==
    /\ (pc = "place" /\ pc' = "recombine") =>
          /\ i < simPopSize \div 2
          /\ i' = i + 1
          /\ Len(population') = simPopSize
          /\ \A j \in 1..simPopSize : j # simPopSize - i => SlotKept(j)
    /\ (InPass /\ pc # "place" /\ pc' \in {"select", "crossover", "mutate", "place"}) =>
          /\ i' = i
          /\ \A j \in 1..simPopSize : SlotKept(j)
    /\ (pc = "recombine" /\ pc' = "idle") =>
          /\ i = simPopSize \div 2
          /\ Len(population') = simPopSize

\* C16: each step() overwrites exactly floor(P/2) distinct slots, one per
\* child, the highest-energy slots of the population as sorted after the
\* refinement; the other ceil(P/2) individuals, the lowest included, keep
\* their place, points and energy through the pass, and the length stays P.
C16_TailReplaced == [](C16_Untouched) /\ [][C16_Write]_vars

\* A pass over a population of four has written its two children.
C16_Witness ==
    /\ pc = "recombine"
    /\ simPopSize = 4
    /\ i = 2

\* calculateEdgeGroups is being called on the best configuration.
EdgeCalls == call.op = "calculateEdgeGroups"

\* C13: with fewer than 4 points calculateEdgeGroups returns an empty list
\* and never reaches the hull computation; updateVisualization then draws
\* no hull and renderEdgeList lists no group.
C13_NoHullBelowFour ==
    (EdgeCalls /\ Len(bestConfig) < 4) =>
        /\ call.hulls = 0
        /\ Len(call.returned) = Len(call.callers)
        /\ \A c \in 1..Len(call.returned) : call.returned[c] = <<>>
        /\ ~call.hullMesh.present
        /\ call.hullMesh.cylinders = <<>>
        /\ call.list = <<>>

\* Three points, the hull code loaded, and both callers have run.
C13_Witness ==
    /\ EdgeCalls
    /\ Len(bestConfig) = 3
    /\ call.loaded
    /\ call.callers = <<"updateVisualization", "renderEdgeList">>

\* Every call made on the configuration returned the same groups, in the
\* same order, with the same lengths and the same edges.
C14_SameGroups ==
    EdgeCalls =>
        \A c, d \in 1..Len(call.returned) : call.returned[c] = call.returned[d]

\* A call leaves the points and the simulation as they were.
C14_Frame ==
    EdgeCalls => UNCHANGED <<heap, bestConfig, population, bestEnergy, simN, simPopSize,
                             isRunning, globalVars>>

EnergyAt(s) == population[s].energy

\* The call made last drew three slots of the population and returned the
\* earliest drawn among those of lowest energy.
C17_Lowest ==
    (call.op = "tournamentSelect" /\ call.made >= 1) =>
        /\ DOMAIN call.draws = 1..3
        /\ \A j \in 1..3 : call.draws[j] \in 1..Len(population)
        /\ \E j \in 1..3 :
              /\ call.result = call.draws[j]
              /\ \A m \in 1..3 : EnergyAt(call.draws[j]) <= EnergyAt(call.draws[m])
              /\ \A m \in 1..(j - 1) : EnergyAt(call.draws[m]) > EnergyAt(call.draws[j])

\* A call of tournamentSelect leaves the population and its points alone.
C17_Frame ==
    call.op = "tournamentSelect" => UNCHANGED <<population, heap, bestConfig>>

\* C17: tournamentSelect draws exactly 3 candidates from the current
\* population, with replacement, and returns one whose energy is at most
\* that of each candidate, the earliest drawn on equal energies; it does
\* not modify the population, and the two parents of a child come from two
\* calls, each with draws of its own, so that they may be one individual.
C17_Tournament == [](C17_Lowest) /\ [][C17_Frame]_vars

\* The second call returned the individual the first call returned,
\* although it drew another one of the same energy later.
C17_Witness ==
    /\ call.op = "tournamentSelect"
    /\ call.made = 2
    /\ call.first = call.result
    /\ \E m \in 2..3 :
          /\ call.draws[m] # call.result
          /\ EnergyAt(call.draws[m]) = EnergyAt(call.result)

\* The side of the plane with normal n that v lies on: the sign of v . n.
Side(v, n) == v[1] * n[1] + v[2] * n[2] + v[3] * n[3]

\* C18: before padding and trimming the child holds exactly the points of
\* A with dot(p, n) >= 0, in A's order, followed by exactly the points of B
\* with dot(p, n) < 0, in B's order.
C18_Inherited ==
    (call.op = "crossover" /\ call.stage \in {"inherited", "padded", "returned"}) =>
        Values(heap, call.kept) =
            SelectSeq(Values(call.before, call.parentA),
                      LAMBDA v : Side(v, call.normal) >= 0)
            \o SelectSeq(Values(call.before, call.parentB),
                         LAMBDA v : Side(v, call.normal) < 0)

\* A child that took a point from each parent and left out a point of A on
\* the negative side and a point of B on the plane.
C18_Witness ==
    /\ call.op = "crossover"
    /\ call.stage = "inherited"
    /\ Len(call.kept) = 2
    /\ \E m \in 1..simN : Side(heap[call.parentA[m]], call.normal) < 0
    /\ \E m \in 1..simN : Side(heap[call.parentB[m]], call.normal) = 0
    /\ \E m \in 1..simN : Side(heap[call.parentB[m]], call.normal) < 0

\* The distance between points a and b of the child.
ChildDistance(a, b) == distanceTo(heap[call.child[a]], heap[call.child[b]])

\* The closest pair of the child, the first in scan order among the
\* closest.
ClosestPair ==
    CHOOSE pr \in PairsOf(Len(call.child)) :
        \A q \in PairsOf(Len(call.child)) :
            \/ ChildDistance(pr[1], pr[2]) < ChildDistance(q[1], q[2])
            \/ /\ ChildDistance(pr[1], pr[2]) = ChildDistance(q[1], q[2])
               /\ pr[1] < q[1] \/ (pr[1] = q[1] /\ pr[2] <= q[2])

\* A trimming round removes the lower-index point of the closest pair and
\* keeps the others in their order.
C19_Round ==
    (call.op = "crossover" /\ call.stage = "padded" /\ call'.stage = "padded") =>
        /\ Len(call.child) > simN
        /\ call'.child = [m \in 1..(Len(call.child) - 1) |->
                             IF m < ClosestPair[1] THEN call.child[m] ELSE call.child[m + 1]]
        /\ heap' = heap

\* The child returned has N points, after as many rounds as it had points
\* too many.
C19_Until ==
    (call.op = "crossover" /\ call.stage = "returned") =>
        /\ Len(call.child) = simN
        /\ call.rounds = IF Len(call.kept) > simN THEN Len(call.kept) - simN ELSE 0

\* C19: while the child has more than N points each trimming round removes
\* exactly one point, the lower-index member of the pair at the smallest
\* distance (the first such pair in scan order on ties), until N points
\* remain; the other points keep their order.
C19_Trim == [](C19_Until) /\ [][C19_Round]_vars

\* A round is due on a child in which two pairs tie for the smallest
\* distance, a round having been made already.
C19_Witness ==
    /\ call.op = "crossover"
    /\ call.stage = "padded"
    /\ call.rounds = 1
    /\ Len(call.child) > simN
    /\ \E q \in PairsOf(Len(call.child)) :
          /\ q # ClosestPair
          /\ q[1] # ClosestPair[1]
          /\ ChildDistance(q[1], q[2]) = ChildDistance(ClosestPair[1], ClosestPair[2])

\* The point mutate picks, before the call, moved by 0.2 times the
\* perturbation, five times over.
Displaced5 ==
    [c \in 1..3 |-> 5 * call.before[call.points[call.idx]][c] + call.perturbation[c]]

\* v is the unit vector along w, to the resolution of the arithmetic.
AlongUnit(v, w) ==
    \A c \in 1..3 : Abs(v[c] * Sqrt(lengthSq(w)) - ONE * w[c]) <= 2 * Sqrt(lengthSq(w))

\* C20: mutate changes at most one point: when the draw is below
\* mutationRate the point at the index picked is displaced by 0.2 times the
\* perturbation and re-normalised and no other point changes; otherwise no
\* point changes; the number of points stays; a rate of 0 never mutates.
C20_OnePoint ==
    (call.op = "mutate" /\ call.stage = "returned") =>
        /\ Len(heap) = Len(call.before)
        /\ \A a \in 1..Len(heap) : a # call.points[call.idx] => heap[a] = call.before[a]
        /\ call.u < mutationRate =>
              AlongUnit(heap[call.points[call.idx]], Displaced5)
        /\ ~(call.u < mutationRate) => heap = call.before
        /\ mutationRate = 0 => heap = call.before

\* A child of two points of which mutate moved the second.
C20_Witness ==
    /\ call.op = "mutate"
    /\ call.stage = "returned"
    /\ Len(call.points) = 2
    /\ call.u < mutationRate
    /\ call.idx = 2
    /\ heap[2] # call.before[2]
    /\ heap[1] = call.before[1]

\* ---------------------------------------------------------------- C21
\* A call of calculateEdgeGroups has gone on to the hull and returned.
EdgesReturned ==
    /\ EdgeCalls
    /\ call.callers # <<>>
    /\ usesHull(Values(heap, bestConfig), call.loaded)

\* The sides of the triangles of the hull, in the order the loop of
\* script.js:432-439 hands them to processEdge.
TriangleSides(hull) ==
    [q \in 1..(3 * Len(hull)) |->
        <<hull[((q - 1) \div 3) + 1][((q - 1) % 3) + 1],
          hull[((q - 1) \div 3) + 1][(q % 3) + 1]>>]

\* The rounded keys of the two ends of a side.
SideKeys(side) == {getVertexKey(side[1]), getVertexKey(side[2])}

\* The ends of an edge of the unique-edge list, as a side.
EdgeSide(edge) == <<edge.start, edge.end>>

\* C21: every side of a triangle whose two ends have different rounded keys
\* has exactly one edge in the unique-edge list, whatever its orientation
\* and however many triangles hold it; the edge listed is the first
\* occurrence in triangle order, with its orientation; no listed edge has
\* two ends of the same key.
C21_Dedup ==
    EdgesReturned =>
        LET sides == TriangleSides(call.hull)
        IN /\ \A q \in DOMAIN sides :
                 Cardinality(SideKeys(sides[q])) = 2 =>
                     Cardinality({e \in DOMAIN call.edges :
                                     SideKeys(EdgeSide(call.edges[e])) = SideKeys(sides[q])}) = 1
           /\ \A e \in DOMAIN call.edges :
                 /\ Cardinality(SideKeys(EdgeSide(call.edges[e]))) = 2
                 /\ \E q \in DOMAIN sides :
                       /\ sides[q] = EdgeSide(call.edges[e])
                       /\ \A r \in 1..(q - 1) : SideKeys(sides[r]) # SideKeys(sides[q])

\* A returned call whose hull has a side with both ends of one key, and a
\* side that comes back later the other way round.
C21_Witness ==
    /\ EdgesReturned
    /\ Len(call.edges) >= 3
    /\ LET sides == TriangleSides(call.hull)
       IN /\ \E q \in DOMAIN sides : Cardinality(SideKeys(sides[q])) = 1
          /\ \E q \in DOMAIN sides : \E r \in DOMAIN sides :
                /\ q < r
                /\ Cardinality(SideKeys(sides[q])) = 2
                /\ sides[r] = <<sides[q][2], sides[q][1]>>

\* ---------------------------------------------------------------- C22
\* Two lengths are within 1e-2 of each other.
Near(l1, l2) == Abs(l1 - l2) * 100 < ONE * LenScale

\* The places of the groups: group and position in the group.
GroupPlaces(groups) ==
    UNION {{<<g, m>> : m \in DOMAIN groups[g].edges} : g \in DOMAIN groups}

\* C22: when edges.forEach is over, every unique edge is in exactly one
\* group and the groups hold nothing else; the length of a group is that of
\* its first edge; every edge is within 1e-2 of the length of its group and
\* of no group created earlier; the lengths of two groups differ by at least
\* 1e-2.
C22_FirstFit ==
    EdgesReturned =>
        /\ \A e \in DOMAIN call.edges :
              Cardinality({pl \in GroupPlaces(call.grouped) :
                              call.grouped[pl[1]].edges[pl[2]] = call.edges[e]}) = 1
        /\ Cardinality(GroupPlaces(call.grouped)) = Len(call.edges)
        /\ \A g \in DOMAIN call.grouped :
              /\ call.grouped[g].edges # <<>>
              /\ call.grouped[g].len = call.grouped[g].edges[1].len
              /\ \A m \in DOMAIN call.grouped[g].edges :
                    /\ Near(call.grouped[g].len, call.grouped[g].edges[m].len)
                    /\ \A h \in 1..(g - 1) :
                          ~Near(call.grouped[h].len, call.grouped[g].edges[m].len)
              /\ \A h \in DOMAIN call.grouped :
                    h # g => ~Near(call.grouped[h].len, call.grouped[g].len)

\* A returned call where an edge sits in a group of another length while a
\* group created later is within 1e-2 of the edge as well.
C22_Witness ==
    /\ EdgesReturned
    /\ \E g \in DOMAIN call.grouped : \E m \in DOMAIN call.grouped[g].edges :
          /\ call.grouped[g].edges[m].len # call.grouped[g].len
          /\ \E h \in DOMAIN call.grouped :
                /\ h > g
                /\ Near(call.grouped[h].len, call.grouped[g].edges[m].len)

\* ---------------------------------------------------------------- C23
\* The groups the last call returned.
LastReturned == call.returned[Len(call.returned)]

\* C23: the list returned is in ascending order of group length, and holds
\* the groups edges.forEach built, each once, with its members and its
\* length as they were.
C23_Sorted ==
    EdgesReturned =>
        /\ \A r \in 1..(Len(LastReturned) - 1) :
              LastReturned[r].len <= LastReturned[r + 1].len
        /\ Len(LastReturned) = Len(call.grouped)
        /\ \A g \in DOMAIN call.grouped :
              Cardinality({r \in DOMAIN LastReturned :
                              LastReturned[r] = call.grouped[g]}) = 1

\* A returned call whose sort moved groups: three groups or more, not in
\* the order they were created.
C23_Witness ==
    /\ EdgesReturned
    /\ Len(LastReturned) >= 3
    /\ LastReturned # call.grouped

\* ---------------------------------------------------------------- C24
\* A call of crossover, and what step() does with the child, are followed.
CrossoverCalls == call.op = "crossover"

\* The point objects an individual holds.
SlotAddrs(j) == {population[j].points[m] : m \in DOMAIN population[j].points}

\* The point objects of the child.
ChildAddrs == {call.child[m] : m \in DOMAIN call.child}

\* The point objects of the two parents have the coordinates they had when
\* crossover was called; the child is made of as many objects as it has
\* points; until it is placed none of them is held by an individual; two
\* individuals hold no object in common; every stored energy is the energy
\* of the points held, so the parents' until the child takes a slot.
C24_Apart ==
    CrossoverCalls =>
        /\ \A a \in DOMAIN call.before : heap[a] = call.before[a]
        /\ Cardinality(ChildAddrs) = Len(call.child)
        /\ call.stage # "placed" =>
              \A j \in DOMAIN population : SlotAddrs(j) \cap ChildAddrs = {}
        /\ \A j \in DOMAIN population : \A j2 \in DOMAIN population :
              j # j2 => SlotAddrs(j) \cap SlotAddrs(j2) = {}
        /\ \A j \in DOMAIN population :
              population[j].energy = calculateEnergy(heap, population[j].points)

\* Crossover, mutate and gradientDescent leave the individuals as they are;
\* placing the child changes its slot alone.
C24_Frame ==
    CrossoverCalls =>
        /\ call'.stage # "placed" => population' = population
        /\ \A j \in DOMAIN population :
              j # replaceIdx(simPopSize, 0) => population'[j] = population[j]

\* C24: crossover copies every point it takes from a parent, so the child,
\* through crossover, mutate, gradientDescent and its placement, shares no
\* point object with an individual or within itself, and the parents keep
\* their coordinates and stored energies, the same individual being both
\* parents included.
C24_NoAliasing == [](C24_Apart) /\ [][C24_Frame]_vars

\* One individual was both parents, the child inherited a point from it,
\* and after mutate and gradientDescent, placed, the child holds a point
\* that is no longer where any parent's point is.
C24_Witness ==
    /\ CrossoverCalls
    /\ call.stage = "placed"
    /\ call.parentA = call.parentB
    /\ Len(call.kept) >= 1
    /\ \E m \in DOMAIN call.kept :
          /\ call.kept[m] \in ChildAddrs
          /\ \A a \in DOMAIN call.before : heap[call.kept[m]] # call.before[a]

\* ---------------------------------------------------------------- C25
\* The best energy is never below zero.
C25_Bounded == bestEnergy >= 0

\* A step() that returns without ending the run has lowered the best energy
\* by the threshold or more; one that ends it returned a delta below the
\* threshold; one that left the best record as it was ends the run.
C25_Progress ==
    (pc = "recombine" /\ pc' = "idle") =>
        /\ isRunning' => bestEnergy' + convergenceThreshold <= initialBestEnergy
        /\ ~isRunning' => delta' < convergenceThreshold
        /\ bestEnergy' = initialBestEnergy => ~isRunning'

\* The run has ended and stays so.
C25_Ended == pc = "idle" /\ Stepped /\ ~isRunning

\* C25: with the threshold fixed above zero and no reset, every frame that
\* does not end the run lowers the best energy by the threshold or more,
\* the best energy stays at or above zero, and the run ends: from some frame
\* on the controller is Converged for good.
C25_RunEnds == [](C25_Bounded) /\ [][C25_Progress]_vars /\ <>[](C25_Ended)

\* A run that ended at its third frame or later: frames before it lowered
\* the best energy by the threshold or more.
C25_Witness ==
    /\ C25_Ended
    /\ frames >= MaxRunFrames
    /\ convergenceThreshold > 0

\* ---------------------------------------------------------------- C26
\* The constructor or step() has returned and no call is under way.
Returned == pc = "idle"

\* C26: whenever the constructor or step() has returned, the population is
\* in ascending order of energy and the best energy is at most the energy
\* of its first individual, so of every individual.
C26_SortedUnderBest ==
    Returned =>
        /\ \A j \in 1..(Len(population) - 1) :
              population[j].energy <= population[j + 1].energy
        /\ Len(population) >= 1
        /\ bestEnergy <= population[1].energy
        /\ \A j \in DOMAIN population : bestEnergy <= population[j].energy

\* step() has returned with a best record whose points are those of no
\* individual of the population, and the energies of the population are
\* not all the same.
C26_Witness ==
    /\ Returned
    /\ Stepped
    /\ \A j \in DOMAIN population :
          Values(heap, population[j].points) # Values(heap, bestConfig)
    /\ population[1].energy < population[Len(population)].energy

==============================================================================
